---- MODULE Spec2Model ----
(***************************************************************************)
(* Model of depot_tools' auth.py: Token, Authenticator (luci-auth) and     *)
(* GerritAuthenticator (git-credential-luci).                              *)
(*                                                                         *)
(* Python values are modelled as follows.  An optional value is a sequence *)
(* of length at most one: None is <<>> and a present value x is <<x>>.     *)
(* Times (datetime, Unix timestamps) are whole seconds.  Text handled by   *)
(* the Gerrit credential-helper parser is a sequence of one-character      *)
(* strings; all other text is a TLA+ string.                               *)
(***************************************************************************)
EXTENDS Integers, Sequences, FiniteSets, TLC

VARIABLES
    now,            \* datetime_now(): the (mockable) UTC clock, in seconds
    scopes,         \* Authenticator._scopes
    audience,       \* Authenticator._audience (optional)
    access_token,   \* Authenticator._access_token (optional Token)
    id_token,       \* Authenticator._id_token (optional Token)
    last,           \* the most recent Authenticator call and its outcome
    http,           \* the http object handed to authorize: which request it has
    tk,             \* a Token under test (needs_refresh)
    tk_result,      \* the most recent needs_refresh() result for tk
    g_access_token, \* GerritAuthenticator._access_token (optional string)
    g_last,         \* the most recent GerritAuthenticator call and its outcome
    fn_in,          \* the argument of a function under test (optional)
    fn_out,         \* the result of the function under test (optional)
    pc,             \* per thread: the statement of get_access_token it is at
    loc,            \* per thread: the helper result it holds and its outcome
    writer          \* the thread whose write of _access_token came last (optional)

vars == <<now, scopes, audience, access_token, id_token, last, http,
          tk, tk_result, g_access_token, g_last, fn_in, fn_out, pc, loc, writer>>

authVars   == <<scopes, audience, access_token, id_token, last, http>>
tokenVars  == <<tk, tk_result>>
gerritVars == <<g_access_token, g_last>>
pureVars   == <<fn_in, fn_out>>
concVars   == <<pc, loc, writer>>

----------------------------------------------------------------------------
(* Bounds of the model *)

MaxTime == 2        \* the clock runs over 0..MaxTime
MaxExpiry == 34     \* expiry times of the tokens under test: 0..MaxExpiry

----------------------------------------------------------------------------
(* Python helpers *)

None == <<>>
Some(x) == <<x>>
Val(o) == o[1]

\* bool(o) for an optional Token: a Token is a two-field namedtuple, so it is
\* truthy whenever it is present.
TruthyToken(o) == o # None

\* bool(o) for an optional str: None and "" are both falsy.
TruthyStr(o) == o # None /\ Val(o) # ""

----------------------------------------------------------------------------
(* auth.py: constants *)

OAUTH_SCOPE_EMAIL == "https://www.googleapis.com/auth/userinfo.email"
OAUTH_SCOPE_GERRIT == "https://www.googleapis.com/auth/gerritcodereview"

\* "Allow 30s of clock skew between client and backend."
CLOCK_SKEW == 30

----------------------------------------------------------------------------
(* Variables a specification does not use stay as they are here *)

Threads == {1, 2}

PureIdle == fn_in = None /\ fn_out = None

ConcIdle ==
    /\ pc = [t \in Threads |-> "idle"]
    /\ loc = [t \in Threads |-> None]
    /\ writer = None

----------------------------------------------------------------------------
(* auth.py: Token *)

Token(token, expires_at) == [token |-> token, expires_at |-> expires_at]

\* Token.needs_refresh with the comparison made strict (a plausible slip).
needs_refresh_strict(self, t) ==
    IF self.expires_at # None
    THEN t + CLOCK_SKEW > Val(self.expires_at)
    ELSE FALSE

\* Token.needs_refresh(), evaluated when datetime_now() returns t.
needs_refresh(self, t) ==
    IF self.expires_at # None
    THEN t + CLOCK_SKEW >= Val(self.expires_at)
    ELSE FALSE

----------------------------------------------------------------------------
(* Specification SpecToken: needs_refresh as a function of token and clock *)

TokenValues == {"t1", "t2"}

TokenInputs ==
    {Token(v, e) : v \in {"t1"}, e \in {None} \cup {Some(x) : x \in 0..MaxExpiry}}

InitToken ==
    /\ now \in 0..MaxTime
    /\ tk \in TokenInputs
    /\ tk_result = None
    /\ scopes = OAUTH_SCOPE_EMAIL
    /\ audience = None
    /\ access_token = None
    /\ id_token = None
    /\ last = [op |-> "none"]
    /\ http = [request |-> "request_orig", use_id_token |-> FALSE]
    /\ g_access_token = None
    /\ g_last = [op |-> "none"]
    /\ PureIdle
    /\ ConcIdle

\* tk.needs_refresh() is called; the result is kept with the time of the call.
NeedsRefresh ==
    /\ tk_result' = Some([at |-> now, value |-> needs_refresh(tk, now)])
    /\ UNCHANGED <<now, tk, authVars, gerritVars, pureVars, concVars>>

\* The clock advances by one second.
TickToken ==
    /\ now < MaxTime
    /\ now' = now + 1
    /\ UNCHANGED <<tokenVars, authVars, gerritVars, pureVars, concVars>>

NextToken == NeedsRefresh \/ TickToken

SpecToken == InitToken /\ [][NextToken]_vars

\* C10: needs_refresh() is true iff expires_at is set and now + 30s >=
\* expires_at; a token expiring in 31s is fresh, one expiring in 30s or 29s
\* is stale, and a token without expiry is never stale.
C10_NeedsRefreshIff ==
    tk_result # None =>
        LET r == Val(tk_result) IN
        /\ r.value <=> (tk.expires_at # None /\ r.at + 30 >= Val(tk.expires_at))
        /\ tk.expires_at = Some(r.at + 31) => r.value = FALSE
        /\ tk.expires_at = Some(r.at + 30) => r.value = TRUE
        /\ tk.expires_at = Some(r.at + 29) => r.value = TRUE
        /\ tk.expires_at = None => r.value = FALSE

\* A token expiring in exactly 30s has been asked, after the clock moved.
C10_Witness ==
    /\ tk_result # None
    /\ Val(tk_result).at > 0
    /\ tk.expires_at = Some(Val(tk_result).at + 30)
    /\ Val(tk_result).value = TRUE

----------------------------------------------------------------------------
(* auth.py: errors *)

\* LoginRequiredError(scopes): the message embeds login_command.
LoginRequiredError(sc) ==
    [type |-> "LoginRequiredError",
     scopes |-> sc,
     msg |-> "You are not logged in. Please login first by running:\n  "
             \o "luci-auth login -scopes \"" \o sc \o "\""]

\* An error of another class that passes through the authenticator unchanged.
PyError(type) == [type |-> type]

Return(v) == [kind |-> "return", value |-> v]
Raise(e) == [kind |-> "raise", error |-> e]

----------------------------------------------------------------------------
(* The luci-auth helper process *)

\* Lifetimes of the tokens luci-auth hands out, in seconds from the call.
Lifetimes == {30, 31, 32}

\* stdout of the helper: JSON text holding an object, or text that is not JSON.
Json(obj) == [json |-> TRUE, obj |-> obj]
NotJson == [json |-> FALSE, obj |-> <<>>]

\* What one run of `luci-auth token` at time t can do: exit non-zero, or exit 0
\* printing a well-formed token object, an object lacking a field, or garbage.
LuciAuthRuns(t) ==
    {[exitcode |-> 1, stdout |-> NotJson]}
    \cup {[exitcode |-> 0, stdout |-> Json([token |-> v, expiry |-> t + l])] :
            v \in TokenValues, l \in Lifetimes}
    \cup {[exitcode |-> 0, stdout |-> s] :
            s \in {NotJson, Json([token |-> "t1"]), Json([expiry |-> t + 31])}}

WellFormed(run) ==
    run.exitcode = 0 /\ run.stdout.json /\ DOMAIN run.stdout.obj = {"token", "expiry"}

\* datetime.datetime.utcfromtimestamp over whole seconds.
utcfromtimestamp(ts) == ts

----------------------------------------------------------------------------
(* auth.py: Authenticator *)

\* The argument list _get_luci_auth_token builds.  The conditional expression
\* binds weaker than +, so without an audience the ID-token arguments are [].
luci_auth_args(use_id_token, sc, aud) ==
    IF use_id_token
    THEN IF TruthyStr(aud)
         THEN <<"-use-id-token">> \o <<"-audience", Val(aud)>>
         ELSE <<>>
    ELSE <<"-scopes", sc>>

\* Authenticator._get_luci_auth_token, given what the helper run does.
\* CalledProcessError (non-zero exit) is caught and turned into None; errors
\* of json.loads and of the field lookups are not caught.
get_luci_auth_token(use_id_token, sc, aud, run) ==
    LET argv == <<"luci-auth", "token">> \o luci_auth_args(use_id_token, sc, aud)
                \o <<"-json-output", "-">>
        res ==
            IF run.exitcode # 0 THEN Return(None)
            ELSE IF ~run.stdout.json THEN Raise(PyError("ValueError"))
            ELSE LET token_info == run.stdout.obj IN
                 IF "token" \notin DOMAIN token_info THEN Raise(PyError("KeyError"))
                 ELSE IF "expiry" \notin DOMAIN token_info
                      THEN Raise(PyError("KeyError"))
                 ELSE Return(Some(Token(token_info.token,
                                        Some(utcfromtimestamp(token_info.expiry)))))
    IN [argv |-> argv, res |-> res]

\* The refresh algorithm shared by get_access_token and get_id_token: cached
\* is the slot before the call; the result carries the slot after the call,
\* the number of helper invocations and the outcome for the caller.
refresh_token(cached, t, use_id_token, sc, aud, err, run) ==
    IF TruthyToken(cached) /\ ~needs_refresh(Val(cached), t)
    THEN [slot |-> cached, calls |-> 0, run |-> None, argv |-> None,
          out |-> Return(cached)]
    ELSE LET h == get_luci_auth_token(use_id_token, sc, aud, run) IN
         IF h.res.kind = "raise"
         THEN [slot |-> cached, calls |-> 1, run |-> Some(run), argv |-> Some(h.argv),
               out |-> h.res]
         ELSE LET new == h.res.value IN
              [slot |-> new, calls |-> 1, run |-> Some(run), argv |-> Some(h.argv),
               out |-> IF TruthyToken(new) /\ ~needs_refresh(Val(new), t)
                       THEN Return(new)
                       ELSE Raise(err)]

\* get_access_token without the second freshness test (a plausible slip).
get_access_token_unchecked(cached, t, sc, aud, run) ==
    LET r == refresh_token(cached, t, FALSE, sc, aud, LoginRequiredError(sc), run) IN
    IF r.calls = 1 /\ r.slot # None /\ r.out.kind = "raise"
                   /\ r.out.error.type = "LoginRequiredError"
    THEN [r EXCEPT !.out = Return(r.slot)]
    ELSE r

\* get_access_token raising LoginRequiredError() with the default scopes, as
\* get_id_token does (a plausible slip).
get_access_token_default_scopes(cached, t, sc, aud, run) ==
    refresh_token(cached, t, FALSE, sc, aud, LoginRequiredError(OAUTH_SCOPE_EMAIL), run)

\* get_access_token that never looks at the cache (a plausible slip).
get_access_token_always(cached, t, sc, aud, run) ==
    LET r == refresh_token(None, t, FALSE, sc, aud, LoginRequiredError(sc), run) IN
    IF r.out.kind = "raise" /\ r.out.error.type # "LoginRequiredError"
    THEN [r EXCEPT !.slot = cached]
    ELSE r

\* get_access_token that returns any cached token, stale or not (a plausible
\* slip).
get_access_token_keep_stale(cached, t, sc, aud, run) ==
    IF TruthyToken(cached)
    THEN [slot |-> cached, calls |-> 0, run |-> None, argv |-> None,
          out |-> Return(cached)]
    ELSE refresh_token(cached, t, FALSE, sc, aud, LoginRequiredError(sc), run)

\* get_access_token that stores the helper's result only when it is fresh (a
\* plausible slip).
get_access_token_store_fresh(cached, t, sc, aud, run) ==
    LET r == refresh_token(cached, t, FALSE, sc, aud, LoginRequiredError(sc), run) IN
    IF r.out.kind = "raise" THEN [r EXCEPT !.slot = cached] ELSE r

\* Authenticator.get_access_token
get_access_token(cached, t, sc, aud, run) ==
    refresh_token(cached, t, FALSE, sc, aud, LoginRequiredError(sc), run)

\* Authenticator.get_id_token: raises LoginRequiredError() with default scopes.
get_id_token(cached, t, sc, aud, run) ==
    refresh_token(cached, t, TRUE, sc, aud, LoginRequiredError(OAUTH_SCOPE_EMAIL), run)

\* Authenticator.has_cached_credentials: bool(self._get_luci_auth_token())
has_cached_credentials(sc, aud, run) ==
    LET h == get_luci_auth_token(FALSE, sc, aud, run) IN
    [argv |-> Some(h.argv),
     out |-> IF h.res.kind = "raise" THEN h.res ELSE Return(TruthyToken(h.res.value))]

----------------------------------------------------------------------------
(* auth.py: Authenticator.authorize *)

\* A dict as a function from its keys; {} is the function with no keys.
EmptyDict == [k \in {} |-> ""]
SetItem(d, k, v) == [x \in DOMAIN d \cup {k} |-> IF x = k THEN v ELSE d[x]]

\* (headers or {}).copy(): None and the empty dict both give a new empty dict.
headers_or_empty(headers) ==
    IF headers # None /\ DOMAIN Val(headers) # {} THEN Val(headers) ELSE EmptyDict

\* The arguments request_orig receives.
RequestArgs(uri, method, body, headers, redirections, connection_type) ==
    [uri |-> uri, method |-> method, body |-> body, headers |-> headers,
     redirections |-> redirections, connection_type |-> connection_type]

\* new_request that forgets to pass the body on (a plausible slip).
new_request_drop_body(req, use_id_token, access, ident, t, sc, aud, run) ==
    LET r == IF ~use_id_token THEN get_access_token(access, t, sc, aud, run)
             ELSE get_id_token(ident, t, sc, aud, run)
    IN [getter |-> IF ~use_id_token THEN "get_access_token" ELSE "get_id_token",
        tok |-> r,
        caller_headers |-> req.headers,
        sent |-> IF r.out.kind = "raise" THEN None
                 ELSE Some(RequestArgs(req.uri, req.method, None,
                        Some(SetItem(headers_or_empty(req.headers), "Authorization",
                                     "Bearer " \o Val(r.out.value).token)),
                        req.redirections, req.connection_type)),
        out |-> IF r.out.kind = "raise" THEN r.out ELSE Return("response")]

\* new_request that catches the getter's error and sends the request with the
\* caller's headers only (a plausible slip).
new_request_send_anyway(req, use_id_token, access, ident, t, sc, aud, run) ==
    LET headers == headers_or_empty(req.headers)
        r == IF ~use_id_token THEN get_access_token(access, t, sc, aud, run)
             ELSE get_id_token(ident, t, sc, aud, run)
    IN [getter |-> IF ~use_id_token THEN "get_access_token" ELSE "get_id_token",
        tok |-> r,
        caller_headers |-> req.headers,
        sent |-> Some(RequestArgs(req.uri, req.method, req.body,
                        Some(IF r.out.kind = "raise" THEN headers
                             ELSE SetItem(headers, "Authorization",
                                          "Bearer " \o Val(r.out.value).token)),
                        req.redirections, req.connection_type)),
        out |-> Return("response")]

\* new_request that sets Authorization in the caller's own mapping instead of
\* a copy (a plausible slip): `headers = headers or {}`.
new_request_no_copy(req, use_id_token, access, ident, t, sc, aud, run) ==
    LET headers == headers_or_empty(req.headers)
        r == IF ~use_id_token THEN get_access_token(access, t, sc, aud, run)
             ELSE get_id_token(ident, t, sc, aud, run)
        sent_headers == SetItem(headers, "Authorization",
                                "Bearer " \o Val(r.out.value).token)
    IN [getter |-> IF ~use_id_token THEN "get_access_token" ELSE "get_id_token",
        tok |-> r,
        caller_headers |-> IF /\ r.out.kind = "return"
                              /\ req.headers # None
                              /\ DOMAIN Val(req.headers) # {}
                           THEN Some(sent_headers) ELSE req.headers,
        sent |-> IF r.out.kind = "raise" THEN None
                 ELSE Some(RequestArgs(req.uri, req.method, req.body,
                        Some(sent_headers), req.redirections, req.connection_type)),
        out |-> IF r.out.kind = "raise" THEN r.out ELSE Return("response")]

\* The closure new_request installed by authorize(http, use_id_token): copy
\* the headers, get a token, set Authorization, call request_orig.  An error
\* of the token getter propagates and request_orig is not called.
\* caller_headers is the caller's own mapping as it is after the call.
new_request(req, use_id_token, access, ident, t, sc, aud, run) ==
    LET headers == headers_or_empty(req.headers)
        r == IF ~use_id_token THEN get_access_token(access, t, sc, aud, run)
             ELSE get_id_token(ident, t, sc, aud, run)
    IN [getter |-> IF ~use_id_token THEN "get_access_token" ELSE "get_id_token",
        tok |-> r,
        caller_headers |-> req.headers,
        sent |-> IF r.out.kind = "raise" THEN None
                 ELSE Some(RequestArgs(req.uri, req.method, req.body,
                        Some(SetItem(headers, "Authorization",
                                     "Bearer " \o Val(r.out.value).token)),
                        req.redirections, req.connection_type)),
        out |-> IF r.out.kind = "raise" THEN r.out ELSE Return("response")]

----------------------------------------------------------------------------
(* Specification Spec: one Authenticator used from a single thread *)

Init ==
    /\ now = 0
    /\ scopes \in {OAUTH_SCOPE_EMAIL, OAUTH_SCOPE_GERRIT}
    /\ audience \in {None, Some("aud")}
    /\ access_token = None
    /\ id_token = None
    /\ last = [op |-> "none"]
    /\ http = [request |-> "request_orig", use_id_token |-> FALSE]
    /\ tk = Token("t1", None)
    /\ tk_result = None
    /\ g_access_token = None
    /\ g_last = [op |-> "none"]
    /\ PureIdle
    /\ ConcIdle

\* The record kept of a token call: the slot before, the time, and the outcome.
CallRecord(op, cached, r) ==
    [op |-> op, at |-> now, cached |-> cached, calls |-> r.calls, run |-> r.run,
     argv |-> r.argv, out |-> r.out]

\* get_access_token keeping its token in one slot shared with get_id_token (a
\* plausible slip).
GetAccessToken_one_slot ==
    \E run \in LuciAuthRuns(now) :
      \E r \in {get_access_token(access_token, now, scopes, audience, run)} :
        /\ access_token' = r.slot
        /\ id_token' = r.slot
        /\ last' = CallRecord("get_access_token", access_token, r)
        /\ UNCHANGED <<now, scopes, audience, http, tokenVars, gerritVars,
                       pureVars, concVars>>

GetAccessToken ==
    \E run \in LuciAuthRuns(now) :
      \E r \in {get_access_token(access_token, now, scopes, audience, run)} :
        /\ access_token' = r.slot
        /\ last' = CallRecord("get_access_token", access_token, r)
        /\ UNCHANGED <<now, scopes, audience, id_token, http, tokenVars, gerritVars,
                       pureVars, concVars>>

GetIdToken ==
    \E run \in LuciAuthRuns(now) :
      \E r \in {get_id_token(id_token, now, scopes, audience, run)} :
        /\ id_token' = r.slot
        /\ last' = CallRecord("get_id_token", id_token, r)
        /\ UNCHANGED <<now, scopes, audience, access_token, http, tokenVars, gerritVars,
                       pureVars, concVars>>

\* has_cached_credentials answered through get_access_token's refresh, which
\* consults and fills the cache slot (a plausible slip).
HasCachedCredentials_through_cache ==
    \E run \in LuciAuthRuns(now) :
      \E r \in {get_access_token(access_token, now, scopes, audience, run)} :
        /\ access_token' = r.slot
        /\ last' = [op |-> "has_cached_credentials", at |-> now, calls |-> r.calls,
                    run |-> Some(run), argv |-> r.argv,
                    out |-> IF r.out.kind = "return" THEN Return(TRUE)
                            ELSE IF r.out.error.type = "LoginRequiredError"
                                 THEN Return(FALSE) ELSE r.out]
        /\ UNCHANGED <<now, scopes, audience, id_token, http,
                       tokenVars, gerritVars, pureVars, concVars>>

HasCachedCredentials ==
    \E run \in LuciAuthRuns(now) :
      \E r \in {has_cached_credentials(scopes, audience, run)} :
        /\ last' = [op |-> "has_cached_credentials", at |-> now, calls |-> 1,
                    run |-> Some(run), argv |-> r.argv, out |-> r.out]
        /\ UNCHANGED <<now, scopes, audience, access_token, id_token, http,
                       tokenVars, gerritVars, pureVars, concVars>>

\* The clock advances by one second.
Tick ==
    /\ now < MaxTime
    /\ now' = now + 1
    /\ UNCHANGED <<authVars, tokenVars, gerritVars, pureVars, concVars>>

Next == GetAccessToken \/ GetIdToken \/ HasCachedCredentials \/ Tick

Spec == Init /\ [][Next]_vars

----------------------------------------------------------------------------
(* Specification SpecHttp: an http object, authorize() and its requests *)

\* The requests a caller makes: the defaults of new_request (GET, no body, no
\* headers, httplib2's default redirections, no connection type) and others.
Requests ==
    { RequestArgs("https://a", "GET", None, None, 5, None),
      RequestArgs("https://b", "POST", Some("data"), Some([Accept |-> "text"]),
                  1, Some("conn")),
      RequestArgs("https://a", "GET", None, Some([Authorization |-> "Basic old"]),
                  5, None),
      RequestArgs("https://b", "PUT", Some(""), Some(EmptyDict), 5, None) }

\* authorize(http, use_id_token): http.request becomes new_request.  The model
\* follows one call of authorize on the http object.
Authorize ==
    /\ http.request = "request_orig"
    /\ \E flag \in BOOLEAN : http' = [request |-> "new_request", use_id_token |-> flag]
    /\ UNCHANGED <<now, scopes, audience, access_token, id_token, last,
                   tokenVars, gerritVars, pureVars, concVars>>

\* http.request(...) before authorize: the original request, arguments as given.
RequestOrig ==
    /\ http.request = "request_orig"
    /\ \E req \in Requests :
        last' = [op |-> "request", wrapped |-> FALSE, at |-> now, req |-> req,
                 sent |-> Some(req), out |-> Return("response")]
    /\ UNCHANGED <<now, scopes, audience, access_token, id_token, http,
                   tokenVars, gerritVars, pureVars, concVars>>

\* http.request(...) after authorize: new_request.
NewRequest ==
    /\ http.request = "new_request"
    /\ \E req \in Requests, run \in LuciAuthRuns(now) :
      \E r \in {new_request(req, http.use_id_token, access_token, id_token, now,
                             scopes, audience, run)} :
        LET cached == IF http.use_id_token THEN id_token ELSE access_token
        IN
        /\ access_token' = IF http.use_id_token THEN access_token ELSE r.tok.slot
        /\ id_token' = IF http.use_id_token THEN r.tok.slot ELSE id_token
        /\ last' = [op |-> "request", wrapped |-> TRUE, at |-> now, req |-> req,
                    use_id_token |-> http.use_id_token, getter |-> r.getter,
                    cached |-> cached,
                    \* the call before this one was delegated with the cached token
                    after_delegated |-> /\ last.op = "request"
                                        /\ last.wrapped
                                        /\ last.sent # None,
                    calls |-> r.tok.calls, run |-> r.tok.run, argv |-> r.tok.argv,
                    tok |-> r.tok.out, caller_headers |-> r.caller_headers,
                    sent |-> r.sent, out |-> r.out]
    /\ UNCHANGED <<now, scopes, audience, http, tokenVars, gerritVars,
                       pureVars, concVars>>

NextHttp == Authorize \/ RequestOrig \/ NewRequest \/ Tick

SpecHttp == Init /\ [][NextHttp]_vars

----------------------------------------------------------------------------
(* Claims about Authenticator *)

\* Freshness as the specification states it: no expiry, or now + 30s < expiry.
IsFresh(tok, t) == tok.expires_at = None \/ t + 30 < Val(tok.expires_at)

CachedFresh(r) == r.cached # None /\ IsFresh(Val(r.cached), r.at)

\* The helper run printed a well-formed token that is stale at time t.
MintedStale(run, t) == WellFormed(run) /\ t + 30 >= run.stdout.obj.expiry

\* C1: every value get_access_token returns is a Token whose needs_refresh()
\* is false at the moment of return.
C1_ReturnedTokenFresh ==
    (last.op = "get_access_token" /\ last.out.kind = "return") =>
        /\ last.out.value # None
        /\ IsFresh(Val(last.out.value), last.at)

\* get_access_token found a stale cached token, ran the helper and returned
\* the new token.
C1_Witness ==
    /\ last.op = "get_access_token"
    /\ last.out.kind = "return"
    /\ last.cached # None
    /\ last.calls = 1
    /\ last.out.value # last.cached

\* C2: with no fresh cached access token, get_access_token invokes the helper
\* exactly once, and if the helper exits non-zero or yields a stale token the
\* call fails with LoginRequiredError carrying the configured scopes (not with
\* the helper's process error).
C2_FailedMintIsLoginRequired ==
    (last.op = "get_access_token" /\ ~CachedFresh(last)) =>
        /\ last.calls = 1
        /\ last.run # None
        /\ (Val(last.run).exitcode # 0 \/ MintedStale(Val(last.run), last.at)) =>
              /\ last.out.kind = "raise"
              /\ last.out.error.type = "LoginRequiredError"
              /\ last.out.error.scopes = scopes

\* A stale cached token, a helper that hands out a stale token, and
\* LoginRequiredError for scopes other than the default.
C2_Witness ==
    /\ last.op = "get_access_token"
    /\ last.cached # None
    /\ last.run # None
    /\ MintedStale(Val(last.run), last.at)
    /\ last.out.kind = "raise"
    /\ last.out.error.scopes = OAUTH_SCOPE_GERRIT

\* C3: for every helper outcome get_access_token and get_id_token either
\* return a fresh Token or fail with LoginRequiredError.
C3_TokenOrLoginRequired ==
    last.op \in {"get_access_token", "get_id_token"} =>
        \/ /\ last.out.kind = "return"
           /\ last.out.value # None
           /\ IsFresh(Val(last.out.value), last.at)
        \/ /\ last.out.kind = "raise"
           /\ last.out.error.type = "LoginRequiredError"

\* C4: a cached access token that is not stale is returned as it is, without
\* a helper invocation; the token a call returns is the cached one afterwards.
C4_FreshCacheNoHelper ==
    last.op = "get_access_token" =>
        /\ CachedFresh(last) =>
              /\ last.out = Return(last.cached)
              /\ last.calls = 0
              /\ last.run = None
              /\ access_token = last.cached
        /\ last.out.kind = "return" => access_token = last.out.value

\* A later get_access_token call is served from the cache.
C4_Witness ==
    /\ last.op = "get_access_token"
    /\ last.at > 0
    /\ CachedFresh(last)
    /\ last.calls = 0
    /\ last.out = Return(access_token)

\* C5: a request made after authorize obtains its token from get_access_token
\* (get_id_token when use_id_token is set) and is delegated to the original
\* request with Authorization: Bearer <token value>, with uri, method, body,
\* redirections and connection_type as given.
C5_WrappedRequestDelegates ==
    (last.op = "request" /\ last.wrapped) =>
        /\ last.getter = IF last.use_id_token THEN "get_id_token"
                         ELSE "get_access_token"
        /\ last.tok.kind = "return" =>
              /\ last.tok.value = IF last.use_id_token THEN id_token
                                  ELSE access_token
              /\ last.sent # None
              /\ LET s == Val(last.sent) IN
                 /\ s.uri = last.req.uri
                 /\ s.method = last.req.method
                 /\ s.body = last.req.body
                 /\ s.redirections = last.req.redirections
                 /\ s.connection_type = last.req.connection_type
                 /\ Val(s.headers)["Authorization"] =
                        "Bearer " \o Val(last.tok.value).token

\* A POST with a body and a connection type went through the wrapper.
C5_Witness ==
    /\ last.op = "request"
    /\ last.wrapped
    /\ last.sent # None
    /\ last.req.method = "POST"
    /\ Val(last.sent).body = Some("data")
    /\ Val(last.sent).connection_type = Some("conn")

\* C6: when the wrapped request is invoked with a cached token that served
\* the call before and has gone stale since, this call invokes the helper
\* exactly once and the request it delegates carries the newly minted token.
C6_StaleTokenRefreshedOnce ==
    (/\ last.op = "request"
     /\ last.wrapped
     /\ last.after_delegated
     /\ ~CachedFresh(last)) =>
        /\ last.calls = 1
        /\ last.sent # None =>
              /\ WellFormed(Val(last.run))
              /\ Val(Val(last.sent).headers)["Authorization"] =
                     "Bearer " \o Val(last.run).stdout.obj.token

\* The second request went out with a token other than the stale cached one.
C6_Witness ==
    /\ last.op = "request"
    /\ last.wrapped
    /\ ~last.use_id_token
    /\ last.after_delegated
    /\ ~CachedFresh(last)
    /\ last.calls = 1
    /\ last.sent # None
    /\ Val(last.run).stdout.obj.token # Val(last.cached).token

----------------------------------------------------------------------------
(* Text as a sequence of characters (the Gerrit credential-helper protocol) *)

\* str.join of a list of texts without separator.
RECURSIVE Concat(_)
Concat(parts) == IF parts = <<>> THEN <<>> ELSE Head(parts) \o Concat(Tail(parts))

\* Python's whitespace, as str.strip() sees it.
IsSpace(c) == c \in {" ", "\t", "\n", "\r", "\f"}

\* str.lstrip()
RECURSIVE lstrip(_)
lstrip(s) == IF s # <<>> /\ IsSpace(Head(s)) THEN lstrip(Tail(s)) ELSE s

\* str.rstrip()
RECURSIVE rstrip(_)
rstrip(s) ==
    IF s # <<>> /\ IsSpace(s[Len(s)]) THEN rstrip(SubSeq(s, 1, Len(s) - 1)) ELSE s

\* str.strip(): whitespace is removed at both ends.
strip(s) == rstrip(lstrip(s))

\* The position of the first character of s that is in set cs, or 0.
Find(s, cs) ==
    IF \E i \in 1..Len(s) : s[i] \in cs
    THEN CHOOSE i \in 1..Len(s) : s[i] \in cs /\ \A j \in 1..(i - 1) : s[j] \notin cs
    ELSE 0

\* str.splitlines(): lines end at \n, \r or \r\n; no line for a final break.
RECURSIVE splitlines(_)
splitlines(s) ==
    IF s = <<>> THEN <<>>
    ELSE LET i == Find(s, {"\n", "\r"}) IN
         IF i = 0 THEN <<s>>
         ELSE LET n == IF s[i] = "\r" /\ i < Len(s) /\ s[i + 1] = "\n" THEN 2 ELSE 1
              IN <<SubSeq(s, 1, i - 1)>> \o splitlines(SubSeq(s, i + n, Len(s)))

\* bytes.decode() and str.encode('utf-8') of ASCII text: the same characters.
decode(bytes) == bytes
encode(str) == str

\* bool(o) for an optional text: None and the empty text are both falsy.
TruthyText(o) == o # None /\ Val(o) # <<>>

\* dict.get(key, None)
Get(d, key) == IF key \in DOMAIN d THEN Some(d[key]) ELSE None

----------------------------------------------------------------------------
(* auth.py: ReAuthContext *)

ReAuthContext(host, project) == [host |-> host, project |-> project]

\* to_git_cred_attrs without the lstrip() (a plausible slip): the newline that
\* opens the f-string stays.
to_git_cred_attrs_no_lstrip(self) ==
    IF self.project = <<>> THEN Raise(PyError("AssertionError"))
    ELSE Return(encode(Concat(<<
            <<"\n">>,
            <<"c", "a", "p", "a", "b", "i", "l", "i", "t", "y", "[", "]", "=", "a", "u", "t", "h", "t", "y", "p", "e">>, <<"\n">>,
            <<"p", "r", "o", "t", "o", "c", "o", "l", "=", "h", "t", "t", "p", "s">>, <<"\n">>,
            <<"h", "o", "s", "t", "=">> \o self.host, <<"\n">>,
            <<"p", "a", "t", "h", "=">> \o self.project, <<"\n">> >>)))

\* ReAuthContext.to_git_cred_attrs: `assert self.project`, then the f-string
\* (which starts with a newline) with lstrip() and encode('utf-8').
to_git_cred_attrs(self) ==
    IF self.project = <<>> THEN Raise(PyError("AssertionError"))
    ELSE Return(encode(lstrip(Concat(<<
            <<"\n">>,
            <<"c", "a", "p", "a", "b", "i", "l", "i", "t", "y", "[", "]", "=", "a", "u", "t", "h", "t", "y", "p", "e">>, <<"\n">>,
            <<"p", "r", "o", "t", "o", "c", "o", "l", "=", "h", "t", "t", "p", "s">>, <<"\n">>,
            <<"h", "o", "s", "t", "=">> \o self.host, <<"\n">>,
            <<"p", "a", "t", "h", "=">> \o self.project, <<"\n">> >>))))

----------------------------------------------------------------------------
(* auth.py: errors of the Gerrit path *)

\* GitLoginRequiredError(): the message embeds login_command.
GitLoginRequiredError ==
    [type |-> "GitLoginRequiredError",
     msg |-> "You are not logged in to Gerrit. Please login first by running:\n  "
             \o "git credential-luci login"]

\* GitReAuthRequiredError(): the message embeds reauth_command.
GitReAuthRequiredError ==
    [type |-> "GitReAuthRequiredError",
     msg |-> "You have not done ReAuth. Please complete ReAuth first, then try again:\n  "
             \o "git credential-luci reauth"]

\* GitUnknownError(): __init__ calls super(GitLoginRequiredError, self), and
\* self is no GitLoginRequiredError, so constructing the error fails with
\* TypeError; `raise GitUnknownError()` therefore raises TypeError.
raise_GitUnknownError == Raise(PyError("TypeError"))

\* subprocess2.CalledProcessError(exitcode, args, cwd, stdout, stderr)
CalledProcessError(returncode, cmd, stdout, stderr) ==
    [type |-> "CalledProcessError", returncode |-> returncode, cmd |-> cmd,
     stdout |-> stdout, stderr |-> stderr]

----------------------------------------------------------------------------
(* auth.py: GerritAuthenticator *)

GCL_EXITCODE_SUCCESS == 0
GCL_EXITCODE_UNCLASSIFIED == 1
GCL_EXITCODE_LOGIN_REQUIRED == 2
GCL_EXITCODE_REAUTH_REQUIRED == 3

AUTHTYPE == <<"a", "u", "t", "h", "t", "y", "p", "e">>
CREDENTIAL == <<"c", "r", "e", "d", "e", "n", "t", "i", "a", "l">>
PASSWORD == <<"p", "a", "s", "s", "w", "o", "r", "d">>
BEARER == <<"B", "e", "a", "r", "e", "r">>

\* The parser keeping a key's first value instead of its last (a plausible slip).
RECURSIVE parse_lines_keep_first(_, _)
parse_lines_keep_first(lines, result) ==
    IF lines = <<>> THEN result
    ELSE LET line == Head(lines)
             i == Find(line, {"="})
         IN IF i # 0 /\ SubSeq(line, 1, i - 1) \notin DOMAIN result
            THEN parse_lines_keep_first(Tail(lines),
                    SetItem(result, SubSeq(line, 1, i - 1),
                            strip(SubSeq(line, i + 1, Len(line)))))
            ELSE parse_lines_keep_first(Tail(lines), result)

\* The parser trimming only the end of a value (a plausible slip).
RECURSIVE parse_lines_rstrip(_, _)
parse_lines_rstrip(lines, result) ==
    IF lines = <<>> THEN result
    ELSE LET line == Head(lines)
             i == Find(line, {"="})
         IN IF i # 0
            THEN parse_lines_rstrip(Tail(lines),
                    SetItem(result, SubSeq(line, 1, i - 1),
                            rstrip(SubSeq(line, i + 1, Len(line)))))
            ELSE parse_lines_rstrip(Tail(lines), result)

\* GerritAuthenticator._parse_creds_helper_out over the lines left to read.
RECURSIVE parse_lines(_, _)
parse_lines(lines, result) ==
    IF lines = <<>> THEN result
    ELSE LET line == Head(lines)
             i == Find(line, {"="})
         IN IF i # 0
            THEN parse_lines(Tail(lines),
                    SetItem(result, SubSeq(line, 1, i - 1),
                            strip(SubSeq(line, i + 1, Len(line)))))
            ELSE parse_lines(Tail(lines), result)

\* GerritAuthenticator._parse_creds_helper_out
parse_creds_helper_out(out_bytes) ==
    parse_lines(splitlines(decode(out_bytes)), EmptyDict)

\* _call_helper that takes exit code 1 for success as well (a plausible slip).
call_helper_unclassified_ok(args, run) ==
    IF run.exitcode \in {GCL_EXITCODE_SUCCESS, GCL_EXITCODE_UNCLASSIFIED}
    THEN Return(run.stdout)
    ELSE IF run.exitcode = GCL_EXITCODE_LOGIN_REQUIRED
         THEN Raise(GitLoginRequiredError)
    ELSE IF run.exitcode = GCL_EXITCODE_REAUTH_REQUIRED
         THEN Raise(GitReAuthRequiredError)
    ELSE Raise(CalledProcessError(run.exitcode, args, run.stdout, run.stderr))

\* GerritAuthenticator._call_helper, given what the helper run does.
call_helper(args, run) ==
    IF run.exitcode = GCL_EXITCODE_SUCCESS THEN Return(run.stdout)
    ELSE IF run.exitcode = GCL_EXITCODE_LOGIN_REQUIRED
         THEN Raise(GitLoginRequiredError)
    ELSE IF run.exitcode = GCL_EXITCODE_REAUTH_REQUIRED
         THEN Raise(GitReAuthRequiredError)
    ELSE Raise(CalledProcessError(run.exitcode, args, run.stdout, run.stderr))

\* _extract_authorization_header that looks at the password first (a
\* plausible slip).
extract_authorization_header_password_first(out_bytes) ==
    LET out == parse_creds_helper_out(out_bytes)
        authtype == Get(out, AUTHTYPE)
        credential == Get(out, CREDENTIAL)
        password == Get(out, PASSWORD)
    IN IF TruthyText(password) THEN Some(BEARER \o <<" ">> \o Val(password))
       ELSE IF TruthyText(authtype) /\ TruthyText(credential)
            THEN Some(Val(authtype) \o <<" ">> \o Val(credential))
       ELSE None

\* GerritAuthenticator._extract_authorization_header
extract_authorization_header(out_bytes) ==
    LET out == parse_creds_helper_out(out_bytes)
        authtype == Get(out, AUTHTYPE)
        credential == Get(out, CREDENTIAL)
        password == Get(out, PASSWORD)
    IN IF TruthyText(authtype) /\ TruthyText(credential)
       THEN Some(Val(authtype) \o <<" ">> \o Val(credential))
       ELSE IF TruthyText(password) THEN Some(BEARER \o <<" ">> \o Val(password))
       ELSE None

GCL_ARGV == <<"git-credential-luci", "get">>

\* get_access_token that passes no env to the helper (a plausible slip).
gerrit_get_access_token_no_env(run) ==
    LET h == call_helper(GCL_ARGV, run)
        call == [argv |-> GCL_ARGV, stdin |-> None, LUCI_ENABLE_REAUTH |-> None]
    IN [calls |-> <<call>>,
        out |-> IF h.kind = "raise" THEN h
                ELSE LET password == Get(parse_creds_helper_out(h.value), PASSWORD) IN
                     IF TruthyText(password) THEN Return(Val(password))
                     ELSE raise_GitUnknownError]

\* GerritAuthenticator.get_access_token: the helper is run with stdin
\* DEVNULL and LUCI_ENABLE_REAUTH=0 in its environment.
gerrit_get_access_token(run) ==
    LET h == call_helper(GCL_ARGV, run)
        call == [argv |-> GCL_ARGV, stdin |-> None, LUCI_ENABLE_REAUTH |-> Some("0")]
    IN [calls |-> <<call>>,
        out |-> IF h.kind = "raise" THEN h
                ELSE LET password == Get(parse_creds_helper_out(h.value), PASSWORD) IN
                     IF TruthyText(password) THEN Return(Val(password))
                     ELSE raise_GitUnknownError]

\* GerritAuthenticator.get_authorization_header: the helper is run with the
\* context's encoding on stdin and the caller's environment.
get_authorization_header(context, run) ==
    LET creds_attrs == to_git_cred_attrs(context) IN
    IF creds_attrs.kind = "raise" THEN [calls |-> <<>>, out |-> creds_attrs]
    ELSE LET h == call_helper(GCL_ARGV, run)
             call == [argv |-> GCL_ARGV, stdin |-> Some(creds_attrs.value),
                      LUCI_ENABLE_REAUTH |-> None]
         IN [calls |-> <<call>>,
             out |-> IF h.kind = "raise" THEN h
                     ELSE LET header == extract_authorization_header(h.value) IN
                          IF TruthyText(header) THEN Return(Val(header))
                          ELSE raise_GitUnknownError]

----------------------------------------------------------------------------
(* The git-credential-luci helper process *)

\* One line of helper output for a key: none, an empty value, or a value.
KeyLines(key, value) ==
    {<<>>, key \o <<"=", "\n">>, key \o <<"=">> \o value \o <<"\n">>}

\* What the helper can print: every combination of an authtype, a credential
\* and a password line, and some output in other shapes.
GclStdouts ==
    {a \o c \o p : a \in KeyLines(AUTHTYPE, <<"B">>),
                   c \in KeyLines(CREDENTIAL, <<"c", "r">>),
                   p \in KeyLines(PASSWORD, <<"p", "w">>)}
    \cup { <<"j", "u", "n", "k", "\n", "p", "a", "s", "s", "w", "o", "r", "d", "=", "a", "\n", "p", "a", "s", "s", "w", "o", "r", "d", "=", "b", "\n">>,
           <<"p", "a", "s", "s", "w", "o", "r", "d", "=", " ", "p", "w", " ", "\r", "\n", "a", "u", "t", "h", "t", "y", "p", "e", "=", "B">>,
           <<"a", "u", "t", "h", "t", "y", "p", "e", " ", "=", "B", "\n", "c", "r", "e", "d", "e", "n", "t", "i", "a", "l", "=", "c", "=", "d", "\n">>,
           <<"\n">> }

\* The exit codes of a helper run: those with a meaning and two without.
GclExitCodes == {0, 1, 2, 3, 4, 255}

\* What one run of `git-credential-luci get` can do.  Output is read only
\* after exit code 0; the failing runs print nothing, a password line, or an
\* authtype and a credential line.
GclRuns ==
    {[exitcode |-> 0, stdout |-> s, stderr |-> <<>>] : s \in GclStdouts}
    \cup {[exitcode |-> e, stdout |-> s, stderr |-> <<"e">>] :
            e \in GclExitCodes \ {0},
            s \in {<<>>,
                   PASSWORD \o <<"=", "p", "w", "\n">>,
                   AUTHTYPE \o <<"=", "B", "\n">> \o CREDENTIAL \o <<"=", "c", "r", "\n">>}}

\* The contexts a caller asks a header for.
Contexts ==
    {ReAuthContext(<<"h">>, <<"p", "/", "s">>), ReAuthContext(<<"h">>, <<>>)}

----------------------------------------------------------------------------
(* Specification SpecGerrit: one GerritAuthenticator *)

InitGerrit ==
    /\ g_access_token = None
    /\ g_last = [op |-> "none"]
    /\ now = 0
    /\ scopes = OAUTH_SCOPE_EMAIL
    /\ audience = None
    /\ access_token = None
    /\ id_token = None
    /\ last = [op |-> "none"]
    /\ http = [request |-> "request_orig", use_id_token |-> FALSE]
    /\ tk = Token("t1", None)
    /\ tk_result = None
    /\ PureIdle
    /\ ConcIdle

\* get_access_token that keeps the password in self._access_token and returns
\* it on later calls without running the helper (a plausible slip).
GerritGetAccessToken_cached ==
    /\ \E run \in GclRuns :
        \E r \in {gerrit_get_access_token(run)} :
            IF g_access_token # None
            THEN /\ g_last' = [op |-> "get_access_token", context |-> None, run |-> run,
                               calls |-> <<>>, out |-> Return(Val(g_access_token))]
                 /\ UNCHANGED g_access_token
            ELSE /\ g_last' = [op |-> "get_access_token", context |-> None, run |-> run,
                               calls |-> r.calls, out |-> r.out]
                 /\ g_access_token' = IF r.out.kind = "return"
                                      THEN Some(r.out.value) ELSE None
    /\ UNCHANGED <<now, authVars, tokenVars, pureVars, concVars>>

GerritGetAccessToken ==
    /\ \E run \in GclRuns :
        \E r \in {gerrit_get_access_token(run)} :
            g_last' = [op |-> "get_access_token", context |-> None, run |-> run,
                       calls |-> r.calls, out |-> r.out]
    /\ UNCHANGED <<g_access_token, now, authVars, tokenVars, pureVars, concVars>>

GerritGetAuthorizationHeader ==
    /\ \E context \in Contexts, run \in GclRuns :
        \E r \in {get_authorization_header(context, run)} :
            g_last' = [op |-> "get_authorization_header", context |-> Some(context),
                       run |-> run, calls |-> r.calls, out |-> r.out]
    /\ UNCHANGED <<g_access_token, now, authVars, tokenVars, pureVars, concVars>>

NextGerrit == GerritGetAccessToken \/ GerritGetAuthorizationHeader

SpecGerrit == InitGerrit /\ [][NextGerrit]_vars

----------------------------------------------------------------------------
(* Claims about GerritAuthenticator *)

\* The call made last ran the helper.
GerritRan ==
    /\ g_last.op \in {"get_access_token", "get_authorization_header"}
    /\ g_last.calls # <<>>

FailsWith(out, type) == out.kind = "raise" /\ out.error.type = type

\* A key of the parsed helper output with a value that is not empty.
Usable(d, key) == key \in DOMAIN d /\ d[key] # <<>>

\* C7: both operations classify the helper's exit code: 0 goes on to parse
\* stdout, 1 fails with GitUnknownError, 2 with GitLoginRequiredError, 3 with
\* GitReAuthRequiredError, any other code with GitUnknownError carrying it.
C7_ExitCodeClassification ==
    GerritRan =>
        LET e == g_last.run.exitcode
            out == g_last.out
        IN
        /\ e = 0 => ~(\E t \in {"GitLoginRequiredError", "GitReAuthRequiredError",
                               "CalledProcessError"} : FailsWith(out, t))
        /\ e = 1 => FailsWith(out, "GitUnknownError")
        /\ e = 2 => FailsWith(out, "GitLoginRequiredError")
        /\ e = 3 => FailsWith(out, "GitReAuthRequiredError")
        /\ e \notin {0, 1, 2, 3} =>
              FailsWith(out, "GitUnknownError") /\ out.error.returncode = e

\* C8: after exit code 0, output without a usable field (no password for
\* get_access_token; neither authtype and credential nor a password for
\* get_authorization_header) makes the operation fail with GitUnknownError.
C8_NoUsableFieldIsGitUnknown ==
    (GerritRan /\ g_last.run.exitcode = 0) =>
        LET d == parse_creds_helper_out(g_last.run.stdout) IN
        /\ (g_last.op = "get_access_token" /\ ~Usable(d, PASSWORD)) =>
              FailsWith(g_last.out, "GitUnknownError")
        /\ (/\ g_last.op = "get_authorization_header"
            /\ ~(Usable(d, AUTHTYPE) /\ Usable(d, CREDENTIAL))
            /\ ~Usable(d, PASSWORD)) =>
              FailsWith(g_last.out, "GitUnknownError")

\* C9 as stated: after exit code 0, get_authorization_header returns
\* "<authtype> <credential>" whenever both keys are present in the parsed
\* output, and otherwise "Bearer <password>" whenever password is present.
C9_HeaderWhenPresent ==
    (GerritRan /\ g_last.op = "get_authorization_header" /\ g_last.run.exitcode = 0) =>
        LET d == parse_creds_helper_out(g_last.run.stdout) IN
        IF AUTHTYPE \in DOMAIN d /\ CREDENTIAL \in DOMAIN d
        THEN g_last.out = Return(d[AUTHTYPE] \o <<" ">> \o d[CREDENTIAL])
        ELSE PASSWORD \in DOMAIN d =>
                g_last.out = Return(BEARER \o <<" ">> \o d[PASSWORD])

\* C9 as amended: after exit code 0, get_authorization_header returns
\* "<authtype> <credential>" whenever both are present and not empty,
\* whether or not there is a password; otherwise, if password is present and
\* not empty, it returns "Bearer <password>".
C9_HeaderWhenNonEmpty ==
    (GerritRan /\ g_last.op = "get_authorization_header" /\ g_last.run.exitcode = 0) =>
        LET d == parse_creds_helper_out(g_last.run.stdout) IN
        IF Usable(d, AUTHTYPE) /\ Usable(d, CREDENTIAL)
        THEN g_last.out = Return(d[AUTHTYPE] \o <<" ">> \o d[CREDENTIAL])
        ELSE Usable(d, PASSWORD) =>
                g_last.out = Return(BEARER \o <<" ">> \o d[PASSWORD])

\* The helper printed authtype, credential and password, and the header is
\* the authtype and credential pair.
C9_Witness ==
    /\ GerritRan
    /\ g_last.op = "get_authorization_header"
    /\ g_last.run.exitcode = 0
    /\ LET d == parse_creds_helper_out(g_last.run.stdout) IN
       /\ Usable(d, AUTHTYPE) /\ Usable(d, CREDENTIAL) /\ Usable(d, PASSWORD)
       /\ g_last.out = Return(<<"B", " ", "c", "r">>)

----------------------------------------------------------------------------
(* Specification SpecEncode: ReAuthContext.to_git_cred_attrs as a function *)

MaxNameLen == 2     \* hosts and projects have at most this many characters

\* All texts of at most n characters over the set chars.
Texts(chars, n) == UNION {[1..k -> chars] : k \in 0..n}

HostChars == {"h", "."}
ProjectChars == {"p", "/", " "}

InitEncode ==
    /\ fn_in \in {Some(ReAuthContext(h, p)) : h \in Texts(HostChars, MaxNameLen),
                                              p \in Texts(ProjectChars, MaxNameLen)}
    /\ fn_out = None
    /\ ConcIdle
    /\ now = 0
    /\ scopes = OAUTH_SCOPE_EMAIL
    /\ audience = None
    /\ access_token = None
    /\ id_token = None
    /\ last = [op |-> "none"]
    /\ http = [request |-> "request_orig", use_id_token |-> FALSE]
    /\ tk = Token("t1", None)
    /\ tk_result = None
    /\ g_access_token = None
    /\ g_last = [op |-> "none"]

\* context.to_git_cred_attrs() is called.
Encode ==
    /\ fn_out' = Some(to_git_cred_attrs(Val(fn_in)))
    /\ UNCHANGED <<fn_in, now, authVars, tokenVars, gerritVars, concVars>>

NextEncode == Encode

SpecEncode == InitEncode /\ [][NextEncode]_vars

\* The four lines of the wire encoding, written out.
ExpectedCredAttrs(host, project) ==
    <<"c", "a", "p", "a", "b", "i", "l", "i", "t", "y", "[", "]", "=", "a", "u", "t", "h", "t", "y", "p", "e", "\n">>
    \o <<"p", "r", "o", "t", "o", "c", "o", "l", "=", "h", "t", "t", "p", "s", "\n">>
    \o <<"h", "o", "s", "t", "=">> \o host \o <<"\n">>
    \o <<"p", "a", "t", "h", "=">> \o project \o <<"\n">>

\* C11: for every host and non-empty project the encoding is exactly the four
\* newline-terminated lines capability[]=authtype, protocol=https,
\* host=<host>, path=<project>; with an empty project the encoding fails and
\* yields no bytes.
C11_EncodingExact ==
    fn_out # None =>
        LET ctx == Val(fn_in)
            out == Val(fn_out)
        IN IF ctx.project # <<>>
           THEN out = Return(ExpectedCredAttrs(ctx.host, ctx.project))
           ELSE out.kind = "raise"

\* A two-character host and project have been encoded.
C11_Witness ==
    /\ fn_out # None
    /\ Val(fn_in) = ReAuthContext(<<"h", ".">>, <<"p", "/">>)
    /\ Val(fn_out).kind = "return"
    /\ Len(Val(fn_out).value) = 53

----------------------------------------------------------------------------
(* Claims about Authenticator: the probe and the helper's arguments *)

\* C12: has_cached_credentials never raises: for every helper outcome it
\* returns a boolean telling whether a token could be minted.
C12_ProbeNeverRaises ==
    last.op = "has_cached_credentials" =>
        /\ last.out.kind = "return"
        /\ last.out.value = WellFormed(Val(last.run))

\* C13: when has_cached_credentials() has returned True, a get_access_token()
\* or get_id_token() call made next, at the same time and with the helper
\* doing the same as for the probe, does not raise LoginRequiredError.
C13_ProbeTrueThenNoLoginRequired ==
    [][(/\ last.op = "has_cached_credentials"
        /\ last.out = Return(TRUE)
        /\ last'.op \in {"get_access_token", "get_id_token"}
        /\ last'.at = last.at
        /\ last'.run \in {None, last.run})
       => ~(last'.out.kind = "raise" /\ last'.out.error.type = "LoginRequiredError")]_vars

\* C14: an ID token is minted with `luci-auth token -use-id-token [-audience
\* <audience>] -json-output -`, -audience being there exactly when an audience
\* is configured; an access token with `-scopes <scopes> -json-output -`.
C14_HelperArguments ==
    (last.op \in {"get_access_token", "get_id_token"} /\ last.argv # None) =>
        Val(last.argv) =
            IF last.op = "get_id_token"
            THEN <<"luci-auth", "token", "-use-id-token">>
                 \o (IF audience # None THEN <<"-audience", Val(audience)>> ELSE <<>>)
                 \o <<"-json-output", "-">>
            ELSE <<"luci-auth", "token", "-scopes", scopes, "-json-output", "-">>

\* C15: access tokens and ID tokens have separate cache slots: a call of
\* get_access_token consults the access-token slot and leaves the ID-token
\* slot as it was, whether it refreshes or fails, and the other way round.
C15_SeparateSlots ==
    [][/\ (last' # last /\ last'.op = "get_access_token") =>
              (id_token' = id_token /\ last'.cached = access_token)
       /\ (last' # last /\ last'.op = "get_id_token") =>
              (access_token' = access_token /\ last'.cached = id_token)]_vars

\* get_access_token ran the helper while the ID-token slot held another token.
C15_Witness ==
    /\ last.op = "get_access_token"
    /\ last.calls = 1
    /\ id_token # None
    /\ access_token # None
    /\ access_token # id_token

----------------------------------------------------------------------------
(* Claims about errors and about the Gerrit helper invocation *)

\* The command an error of a given kind tells the user to run.
Remediation(e) ==
    CASE e.type = "LoginRequiredError" ->
            "luci-auth login -scopes \"" \o e.scopes \o "\""
      [] e.type \in {"GitLoginRequiredError", "GitUnknownError"} ->
            "git credential-luci login"
      [] e.type = "GitReAuthRequiredError" -> "git credential-luci reauth"

\* The texts that come before the command in the messages.
MessageHeads ==
    {"You are not logged in. Please login first by running:\n  ",
     "You are not logged in to Gerrit. Please login first by running:\n  ",
     "You have not done ReAuth. Please complete ReAuth first, then try again:\n  ",
     "Unknown error from git-credential-luci. Try logging in? Run:\n  "}

EmbedsRemediation(out) ==
    out.kind = "raise" =>
        /\ out.error.type \in {"LoginRequiredError", "GitLoginRequiredError",
                               "GitReAuthRequiredError", "GitUnknownError"}
        /\ "msg" \in DOMAIN out.error
        /\ \E head \in MessageHeads : out.error.msg = head \o Remediation(out.error)

\* C16: every error a public operation of Authenticator or
\* GerritAuthenticator raises carries a message that embeds the remediation
\* command of its kind.
C16_ErrorsEmbedRemediation ==
    /\ last.op # "none" => EmbedsRemediation(last.out)
    /\ g_last.op # "none" => EmbedsRemediation(g_last.out)

\* C18: GerritAuthenticator.get_access_token runs `git-credential-luci get`
\* with empty stdin and LUCI_ENABLE_REAUTH=0; get_authorization_header runs
\* it with the context's encoding on stdin and no ReAuth override.
C18_HelperInvocation ==
    /\ g_last.op = "get_access_token" =>
          g_last.calls = <<[argv |-> <<"git-credential-luci", "get">>,
                            stdin |-> None,
                            LUCI_ENABLE_REAUTH |-> Some("0")]>>
    /\ g_last.op = "get_authorization_header" =>
          LET ctx == Val(g_last.context) IN
          /\ ctx.project # <<>> => Len(g_last.calls) = 1
          /\ \A i \in DOMAIN g_last.calls :
                g_last.calls[i] =
                    [argv |-> <<"git-credential-luci", "get">>,
                     stdin |-> Some(ExpectedCredAttrs(ctx.host, ctx.project)),
                     LUCI_ENABLE_REAUTH |-> None]

\* get_access_token got a password from a helper run.
C18_Witness ==
    /\ g_last.op = "get_access_token"
    /\ g_last.calls # <<>>
    /\ g_last.out = Return(<<"p", "w">>)

\* C20: when the helper exits with a non-zero code, both operations fail and
\* return neither token nor header, whatever stdout holds.
C20_NonZeroExitFails ==
    (GerritRan /\ g_last.run.exitcode # 0) => g_last.out.kind = "raise"

\* The helper exited with code 1 after printing a password line.
C20_Witness ==
    /\ GerritRan
    /\ g_last.run.exitcode = 1
    /\ Usable(parse_creds_helper_out(g_last.run.stdout), PASSWORD)
    /\ g_last.out.kind = "raise"

----------------------------------------------------------------------------
(* The credential-helper output parser as a function of the helper's stdout *)

MaxOutLen == 6      \* the helper's stdout has at most this many characters

OutChars == {"k", "v", "=", " ", "\n"}

InitParse ==
    /\ fn_in \in {Some(t) : t \in Texts(OutChars, MaxOutLen)}
    /\ fn_out = None
    /\ ConcIdle
    /\ now = 0
    /\ scopes = OAUTH_SCOPE_EMAIL
    /\ audience = None
    /\ access_token = None
    /\ id_token = None
    /\ last = [op |-> "none"]
    /\ http = [request |-> "request_orig", use_id_token |-> FALSE]
    /\ tk = Token("t1", None)
    /\ tk_result = None
    /\ g_access_token = None
    /\ g_last = [op |-> "none"]

\* self._parse_creds_helper_out(stdout) is called.
Parse ==
    /\ fn_out' = Some(parse_creds_helper_out(Val(fn_in)))
    /\ UNCHANGED <<fn_in, now, authVars, tokenVars, gerritVars, concVars>>

NextParse == Parse

SpecParse == InitParse /\ [][NextParse]_vars

\* The lines of the parsed text, and the parts of a line around its first '='.
ParsedLines == splitlines(Val(fn_in))
HasEq(line) == \E i \in DOMAIN line : line[i] = "="
FirstEq(line) == CHOOSE i \in DOMAIN line :
                    line[i] = "=" /\ \A j \in 1..(i - 1) : line[j] # "="
KeyOf(line) == SubSeq(line, 1, FirstEq(line) - 1)
AfterEq(line) == SubSeq(line, FirstEq(line) + 1, Len(line))
LinesWithKey(k) ==
    {i \in DOMAIN ParsedLines : HasEq(ParsedLines[i]) /\ KeyOf(ParsedLines[i]) = k}
LastLineWithKey(k) ==
    CHOOSE i \in LinesWithKey(k) : \A j \in LinesWithKey(k) : j <= i

\* C17: the parser's entries are exactly the keys before the first '=' of the
\* lines that contain '='; lines without '=' add nothing; a key on several
\* lines holds the value of the last of them (values compared up to the
\* whitespace around them).
C17_ParserEntries ==
    fn_out # None =>
        LET result == Val(fn_out) IN
        /\ DOMAIN result =
              {KeyOf(ParsedLines[i]) :
                  i \in {j \in DOMAIN ParsedLines : HasEq(ParsedLines[j])}}
        /\ \A k \in DOMAIN result :
              strip(result[k]) = strip(AfterEq(ParsedLines[LastLineWithKey(k)]))

\* A key on two lines with different values was parsed.
C17_Witness ==
    /\ fn_in = Some(<<"k", "=", "v", "\n", "k", "=">>)
    /\ fn_out = Some(SetItem(EmptyDict, <<"k">>, <<>>))

----------------------------------------------------------------------------
(* auth.py: Authenticator.get_access_token called by two threads on one
   shared Authenticator, interleaved statement by statement.  pc[t] is the
   statement thread t runs next, loc[t] what the thread holds outside the
   shared object (the helper's result, the call's outcome) with the time of
   its last freshness test, writer the thread that assigned the cache slot last. *)

ConcRest == <<scopes, audience, id_token, last, http, tokenVars, gerritVars, pureVars>>

\* The cache slot at the start: empty, a token that is already stale, or a
\* token that is fresh until the clock moves.
InitConc ==
    /\ now = 0
    /\ scopes = OAUTH_SCOPE_EMAIL
    /\ audience = None
    /\ access_token \in {None, Some(Token("t1", Some(CLOCK_SKEW))),
                         Some(Token("t1", Some(CLOCK_SKEW + 1)))}
    /\ id_token = None
    /\ last = [op |-> "none"]
    /\ http = [request |-> "request_orig", use_id_token |-> FALSE]
    /\ tk = Token("t1", None)
    /\ tk_result = None
    /\ g_access_token = None
    /\ g_last = [op |-> "none"]
    /\ PureIdle
    /\ ConcIdle

\* Thread t enters get_access_token.
ConcCall(t) ==
    /\ pc[t] = "idle"
    /\ pc' = [pc EXCEPT ![t] = "check_cached"]
    /\ loc' = [loc EXCEPT ![t] = Some([tested_at |-> None, helper |-> None, out |-> None])]
    /\ UNCHANGED <<now, access_token, writer, ConcRest>>

\* if self._access_token and not self._access_token.needs_refresh():
ConcCheckCached(t) ==
    /\ pc[t] = "check_cached"
    /\ pc' = [pc EXCEPT ![t] =
                IF TruthyToken(access_token) /\ ~needs_refresh(Val(access_token), now)
                THEN "return_cached" ELSE "invoke_helper"]
    /\ loc' = [loc EXCEPT ![t] = Some([Val(loc[t]) EXCEPT !.tested_at = Some(now)])]
    /\ UNCHANGED <<now, access_token, writer, ConcRest>>

\* return self._access_token (first return): the slot is read again.
ConcReturnCached(t) ==
    /\ pc[t] = "return_cached"
    /\ pc' = [pc EXCEPT ![t] = "done"]
    /\ loc' = [loc EXCEPT ![t] = Some([Val(loc[t]) EXCEPT !.out = Some(Return(access_token))])]
    /\ UNCHANGED <<now, access_token, writer, ConcRest>>

\* self._get_luci_auth_token(): the helper runs; an error of json.loads or of
\* the field lookups leaves get_access_token at once.
ConcInvokeHelper(t) ==
    /\ pc[t] = "invoke_helper"
    /\ \E run \in LuciAuthRuns(now) :
       \E h \in {get_luci_auth_token(FALSE, scopes, audience, run).res} :
          /\ pc' = [pc EXCEPT ![t] = IF h.kind = "raise" THEN "done" ELSE "store"]
          /\ loc' = [loc EXCEPT ![t] =
                        Some([tested_at |-> Val(loc[t]).tested_at,
                              helper |-> Some(h),
                              out |-> IF h.kind = "raise" THEN Some(h) ELSE None])]
    /\ UNCHANGED <<now, access_token, writer, ConcRest>>

\* The raise statement clearing the cache slot as well (a plausible slip).
ConcRaise_clear_slot(t) ==
    /\ pc[t] = "raise"
    /\ pc' = [pc EXCEPT ![t] = "done"]
    /\ loc' = [loc EXCEPT ![t] =
                  Some([Val(loc[t]) EXCEPT !.out = Some(Raise(LoginRequiredError(scopes)))])]
    /\ access_token' = None
    /\ UNCHANGED <<now, writer, ConcRest>>

\* self._access_token = <the helper's result>
ConcStore(t) ==
    /\ pc[t] = "store"
    /\ access_token' = Val(Val(loc[t]).helper).value
    /\ writer' = Some(t)
    /\ pc' = [pc EXCEPT ![t] = "check_reloaded"]
    /\ UNCHANGED <<now, loc, ConcRest>>

\* if self._access_token and not self._access_token.needs_refresh(): (second)
ConcCheckReloaded(t) ==
    /\ pc[t] = "check_reloaded"
    /\ pc' = [pc EXCEPT ![t] =
                IF TruthyToken(access_token) /\ ~needs_refresh(Val(access_token), now)
                THEN "return_reloaded" ELSE "raise"]
    /\ loc' = [loc EXCEPT ![t] = Some([Val(loc[t]) EXCEPT !.tested_at = Some(now)])]
    /\ UNCHANGED <<now, access_token, writer, ConcRest>>

\* return self._access_token (second return): the slot is read again.
ConcReturnReloaded(t) ==
    /\ pc[t] = "return_reloaded"
    /\ pc' = [pc EXCEPT ![t] = "done"]
    /\ loc' = [loc EXCEPT ![t] = Some([Val(loc[t]) EXCEPT !.out = Some(Return(access_token))])]
    /\ UNCHANGED <<now, access_token, writer, ConcRest>>

\* raise LoginRequiredError(self._scopes)
ConcRaise(t) ==
    /\ pc[t] = "raise"
    /\ pc' = [pc EXCEPT ![t] = "done"]
    /\ loc' = [loc EXCEPT ![t] =
                  Some([Val(loc[t]) EXCEPT !.out = Some(Raise(LoginRequiredError(scopes)))])]
    /\ UNCHANGED <<now, access_token, writer, ConcRest>>

\* The clock moves while the threads run.
TickConc ==
    /\ now < MaxTime
    /\ now' = now + 1
    /\ UNCHANGED <<access_token, concVars, ConcRest>>

NextConc ==
    \/ \E t \in Threads : ConcCall(t)
    \/ \E t \in Threads : ConcCheckCached(t)
    \/ \E t \in Threads : ConcReturnCached(t)
    \/ \E t \in Threads : ConcInvokeHelper(t)
    \/ \E t \in Threads : ConcStore(t)
    \/ \E t \in Threads : ConcCheckReloaded(t)
    \/ \E t \in Threads : ConcReturnReloaded(t)
    \/ \E t \in Threads : ConcRaise(t)
    \/ TickConc

SpecConc == InitConc /\ [][NextConc]_vars

AllDone == \A t \in Threads : pc[t] = "done"
Invoked(t) == loc[t] # None /\ Val(loc[t]).helper # None
\* What thread t's helper run gave for the cache slot.
HelperResult(t) == Val(Val(loc[t]).helper).value

\* C19: once both concurrent calls have finished, the cache slot holds the
\* helper result written by the caller whose cache write happened last.
C19_LastWriteWins ==
    (AllDone /\ writer # None) => access_token = HelperResult(Val(writer))

\* Both callers invoked the helper, got different results and wrote them; the
\* calls have finished.
C19_Witness ==
    /\ AllDone
    /\ \A t \in Threads : Invoked(t) /\ Val(Val(loc[t]).helper).kind = "return"
    /\ HelperResult(1) # HelperResult(2)
    /\ writer = Some(1)
    /\ access_token = HelperResult(1)

----------------------------------------------------------------------------
(* Claims about what the refresh leaves in the cache slots *)

\* The slot the last call of get_access_token or get_id_token works on.
SlotOf(op) == IF op = "get_id_token" THEN id_token ELSE access_token

RefreshOps == {"get_access_token", "get_id_token"}

\* C21 as stated: a refresh whose helper result is absent or stale leaves the
\* slot as it was, so a newly stored token is fresh at the time of the call.
C21_StoresOnlyFresh ==
    (last.op \in RefreshOps /\ last.calls = 1) =>
        /\ (~WellFormed(Val(last.run)) \/ MintedStale(Val(last.run), last.at))
              => SlotOf(last.op) = last.cached
        /\ SlotOf(last.op) # last.cached =>
              /\ SlotOf(last.op) # None
              /\ IsFresh(Val(SlotOf(last.op)), last.at)

\* C21 amended: a refresh stores whatever the helper gave, fresh or not: None
\* when the helper exits non-zero, the printed token when the output is well
\* formed; only a helper output that cannot be read leaves the slot as it was,
\* and so does a call that finds a fresh cached token.
C21_StoresEveryResult ==
    last.op \in RefreshOps =>
        /\ last.calls = 0 => SlotOf(last.op) = last.cached
        /\ last.calls = 1 =>
              LET run == Val(last.run) IN
              SlotOf(last.op) =
                  IF run.exitcode # 0 THEN None
                  ELSE IF WellFormed(run)
                       THEN Some(Token(run.stdout.obj.token, Some(run.stdout.obj.expiry)))
                  ELSE last.cached

\* get_access_token stored a token that was stale when the helper printed it,
\* in place of what the slot held.
C21_Witness ==
    /\ last.op = "get_access_token"
    /\ last.calls = 1
    /\ MintedStale(Val(last.run), last.at)
    /\ access_token # last.cached
    /\ access_token # None
    /\ ~IsFresh(Val(access_token), last.at)

----------------------------------------------------------------------------
(* Claims about GerritAuthenticator's unused cache field *)

GerritCalled == g_last.op \in {"get_access_token", "get_authorization_header"}

\* What the call recorded in g_last gives on a GerritAuthenticator that has
\* made no call before.
OutcomeOnFirstCall ==
    IF g_last.op = "get_access_token"
    THEN gerrit_get_access_token(g_last.run).out
    ELSE get_authorization_header(Val(g_last.context), g_last.run).out

\* C22 as stated: every call runs the helper exactly once, the cache field
\* stays unset and the outcome is that of the call's own helper run.
C22_ExactlyOneHelperRun ==
    /\ g_access_token = None
    /\ GerritCalled =>
          /\ Len(g_last.calls) = 1
          /\ g_last.out = OutcomeOnFirstCall

\* C22 amended: get_authorization_header for a context with an empty project
\* fails before the helper is run; every other call runs the helper exactly
\* once; the cache field stays unset and the outcome is that of the call's
\* own helper run.
C22_OneHelperRunUnlessEmptyProject ==
    /\ g_access_token = None
    /\ GerritCalled =>
          /\ Len(g_last.calls) =
                IF /\ g_last.op = "get_authorization_header"
                   /\ Val(g_last.context).project = <<>>
                THEN 0 ELSE 1
          /\ g_last.out = OutcomeOnFirstCall

\* get_authorization_header returned a header from one helper run and the
\* cache field is still unset.
C22_Witness ==
    /\ g_last.op = "get_authorization_header"
    /\ Len(g_last.calls) = 1
    /\ g_last.out.kind = "return"
    /\ g_access_token = None

----------------------------------------------------------------------------
(* Claims about the values the parser stores *)

\* The text after the first '=' on the last line that holds key k.
RawValue(k) == AfterEq(ParsedLines[LastLineWithKey(k)])

\* Whitespace removed from the end of a text only, written without recursion.
TrimEnd(s) ==
    LET keep == {i \in DOMAIN s : ~IsSpace(s[i])} IN
    IF keep = {} THEN <<>>
    ELSE SubSeq(s, 1, CHOOSE i \in keep : \A j \in keep : j <= i)

\* Whitespace removed from both ends of a text.
TrimBoth(s) ==
    LET keep == {i \in DOMAIN s : ~IsSpace(s[i])} IN
    IF keep = {} THEN <<>>
    ELSE SubSeq(s, CHOOSE i \in keep : \A j \in keep : i <= j,
                   CHOOSE i \in keep : \A j \in keep : j <= i)

\* C23 as stated: the value stored for a key is the text after the first '='
\* on its line with trailing whitespace removed.
C23_ValueTrailingTrimmed ==
    fn_out # None =>
        \A k \in DOMAIN Val(fn_out) : Val(fn_out)[k] = TrimEnd(RawValue(k))

\* C23 amended: the value stored for a key is the text after the first '=' on
\* its line with whitespace removed from both ends.
C23_ValueTrimmedBothEnds ==
    fn_out # None =>
        \A k \in DOMAIN Val(fn_out) : Val(fn_out)[k] = TrimBoth(RawValue(k))

\* A value that begins and ends with a space was parsed.
C23_Witness ==
    /\ fn_in = Some(<<"k", "=", " ", "v", " ">>)
    /\ fn_out = Some(SetItem(EmptyDict, <<"k">>, <<"v">>))

----------------------------------------------------------------------------
(* Claims about what concurrent callers of get_access_token receive *)

Returned(t) ==
    /\ pc[t] = "done"
    /\ Val(loc[t]).out # None
    /\ Val(Val(loc[t]).out).kind = "return"

ReturnedValue(t) == Val(Val(loc[t]).out).value

\* C24: every concurrent call of get_access_token that returns normally
\* returns a Token, never an absent value, and the Token is fresh at the time
\* the call tested it.
C24_ConcurrentReturnFresh ==
    \A t \in Threads :
        Returned(t) =>
            /\ ReturnedValue(t) # None
            /\ IsFresh(Val(ReturnedValue(t)), Val(Val(loc[t]).tested_at))

----------------------------------------------------------------------------
(* Claims about what a wrapped request sends *)

WrappedRequest == last.op = "request" /\ last.wrapped

\* The token a wrapped request had at hand was fresh when it was obtained: the
\* cached token when no helper ran, the helper's token otherwise.
FreshTokenValues ==
    IF last.calls = 0
    THEN IF CachedFresh(last) THEN {Val(last.cached).token} ELSE {}
    ELSE IF WellFormed(Val(last.run)) /\ ~MintedStale(Val(last.run), last.at)
         THEN {Val(last.run).stdout.obj.token}
         ELSE {}

\* C25: a wrapped request whose token getter fails with LoginRequiredError
\* does not invoke the original request, and every request that is delegated
\* carries an Authorization header built from a token that was fresh when it
\* was obtained.
C25_NoDelegationWithoutFreshToken ==
    WrappedRequest =>
        /\ FailsWith(last.tok, "LoginRequiredError") =>
              (last.sent = None /\ last.out = last.tok)
        /\ last.sent # None =>
              /\ Val(last.sent).headers # None
              /\ "Authorization" \in DOMAIN Val(Val(last.sent).headers)
              /\ \E v \in FreshTokenValues :
                    Val(Val(last.sent).headers)["Authorization"] = "Bearer " \o v

\* A wrapped request after an earlier delegated one failed with
\* LoginRequiredError and nothing was sent.
C25_Witness ==
    /\ WrappedRequest
    /\ last.after_delegated
    /\ FailsWith(last.tok, "LoginRequiredError")
    /\ last.sent = None

\* C26: a wrapped request leaves the caller's headers mapping as it was, and
\* the headers it sends are the caller's with Authorization set to
\* "Bearer <the getter's token>", whatever Authorization the caller gave.
C26_HeadersCopiedAndReplaced ==
    WrappedRequest =>
        /\ last.caller_headers = last.req.headers
        /\ last.sent # None =>
              LET given == IF last.req.headers = None THEN EmptyDict
                           ELSE Val(last.req.headers)
                  sent == Val(Val(last.sent).headers)
              IN /\ DOMAIN sent = DOMAIN given \cup {"Authorization"}
                 /\ sent["Authorization"] = "Bearer " \o Val(last.tok.value).token
                 /\ \A k \in DOMAIN given \ {"Authorization"} : sent[k] = given[k]

\* The caller gave its own Authorization header; the request went out with
\* the authenticator's and the caller's mapping still holds its own.
C26_Witness ==
    /\ WrappedRequest
    /\ last.sent # None
    /\ last.req.headers = Some([Authorization |-> "Basic old"])
    /\ last.caller_headers = Some([Authorization |-> "Basic old"])
    /\ Val(Val(last.sent).headers)["Authorization"] # "Basic old"

----------------------------------------------------------------------------
(* Claims about the probe's effect on the cache *)

\* C27: has_cached_credentials runs the helper once with the access-token
\* arguments whatever the cache holds and leaves both slots as they were; a
\* get_access_token that follows a probe on an empty cache runs the helper
\* again.
C27_ProbeIgnoresCache ==
    [][/\ (last' # last /\ last'.op = "has_cached_credentials") =>
             /\ last'.calls = 1
             /\ last'.argv = Some(<<"luci-auth", "token", "-scopes", scopes,
                                    "-json-output", "-">>)
             /\ access_token' = access_token
             /\ id_token' = id_token
       /\ (/\ last.op = "has_cached_credentials"
           /\ access_token = None
           /\ last'.op = "get_access_token") =>
             /\ last.calls = 1
             /\ last'.calls = 1]_vars

\* The probe ran the helper although the cache held a fresh access token.
C27_Witness ==
    /\ last.op = "has_cached_credentials"
    /\ last.calls = 1
    /\ access_token # None
    /\ IsFresh(Val(access_token), last.at)

----------------------------------------------------------------------------
(* siso.py: command-line arguments are lists of texts, each text a sequence
   of characters *)

\* str.startswith
startswith(s, prefix) ==
    Len(s) >= Len(prefix) /\ SubSeq(s, 1, Len(prefix)) = prefix

DASH == <<"-">>
DASH_C == <<"-", "C">>
NINJA == <<"n", "i", "n", "j", "a">>

\* siso.parse_args over the arguments from index i on: the subcommand is the
\* first argument that does not start with "-"; "-C" takes the next argument
\* as out_dir and fails with IndexError when there is none.
RECURSIVE parse_args_from(_, _, _, _)
parse_args_from(args, i, subcmd, out_dir) ==
    IF i > Len(args) THEN Return([subcmd |-> subcmd, out_dir |-> out_dir])
    ELSE LET arg == args[i] IN
         IF ~startswith(arg, DASH) /\ subcmd = <<>>
         THEN parse_args_from(args, i + 1, arg, out_dir)
         ELSE IF arg = DASH_C
              THEN IF i + 1 > Len(args) THEN Raise(PyError("IndexError"))
                   ELSE parse_args_from(args, i + 1, subcmd, args[i + 1])
         ELSE IF startswith(arg, DASH_C)
              THEN parse_args_from(args, i + 1, subcmd, SubSeq(arg, 3, Len(arg)))
         ELSE parse_args_from(args, i + 1, subcmd, out_dir)

\* siso.parse_args
parse_args(args) == parse_args_from(args, 1, <<>>, <<".">>)

\* dict.get(arg, [])
GetOrEmpty(d, key) == IF key \in DOMAIN d THEN d[key] ELSE <<>>

\* siso.apply_sisorc over the arguments left to read.
RECURSIVE apply_sisorc_from(_, _, _, _, _)
apply_sisorc_from(global_flags, subcmd_flags, args, subcmd, new_args) ==
    IF args = <<>> THEN new_args
    ELSE LET arg == Head(args)
             started == IF new_args = <<>> THEN global_flags ELSE new_args
         IN IF arg = subcmd
            THEN apply_sisorc_from(global_flags, subcmd_flags, Tail(args), subcmd,
                                   started \o <<arg>> \o GetOrEmpty(subcmd_flags, arg))
            ELSE apply_sisorc_from(global_flags, subcmd_flags, Tail(args), subcmd,
                                   started \o <<arg>>)

\* siso.apply_sisorc
apply_sisorc(global_flags, subcmd_flags, args, subcmd) ==
    apply_sisorc_from(global_flags, subcmd_flags, args, subcmd, <<>>)

----------------------------------------------------------------------------
(* Specification SpecSisorc: apply_sisorc as main calls it, with the
   subcommand parse_args found in the arguments *)

MaxArgs == 3        \* a command line has at most this many arguments

ArgWords == {NINJA, DASH_C, <<"o", "u", "t">>}

GlobalFlagLists == {<<>>, <<<<"-", "c", "r", "e", "d", "e", "n", "t", "i", "a", "l", "_", "h", "e", "l", "p", "e", "r", "=", "l", "u", "c", "i", "-", "a", "u", "t", "h">>>>}

SubcmdFlagDicts == {EmptyDict, SetItem(EmptyDict, NINJA, <<<<"-", "k", "=", "0">>>>)}

\* The command lines parse_args accepts.
ArgLists == {a \in Texts(ArgWords, MaxArgs) : parse_args(a).kind = "return"}

InitSisorc ==
    /\ fn_in \in {Some([global_flags |-> g, subcmd_flags |-> f, args |-> a,
                        subcmd |-> parse_args(a).value.subcmd]) :
                    g \in GlobalFlagLists, f \in SubcmdFlagDicts, a \in ArgLists}
    /\ fn_out = None
    /\ ConcIdle
    /\ now = 0
    /\ scopes = OAUTH_SCOPE_EMAIL
    /\ audience = None
    /\ access_token = None
    /\ id_token = None
    /\ last = [op |-> "none"]
    /\ http = [request |-> "request_orig", use_id_token |-> FALSE]
    /\ tk = Token("t1", None)
    /\ tk_result = None
    /\ g_access_token = None
    /\ g_last = [op |-> "none"]

\* apply_sisorc(global_flags, subcmd_flags, args, subcmd) is called.
ApplySisorc ==
    /\ fn_out = None
    /\ fn_out' = Some(apply_sisorc(Val(fn_in).global_flags, Val(fn_in).subcmd_flags,
                                   Val(fn_in).args, Val(fn_in).subcmd))
    /\ UNCHANGED <<fn_in, now, authVars, tokenVars, gerritVars, concVars>>

NextSisorc == ApplySisorc

SpecSisorc == InitSisorc /\ [][NextSisorc]_vars

\* The place of the subcommand argument in args: the first argument equal to
\* the subcommand, 0 when there is none.
SubcmdIndex(args, subcmd) ==
    IF \E i \in DOMAIN args : args[i] = subcmd
    THEN CHOOSE i \in DOMAIN args :
            args[i] = subcmd /\ \A j \in 1..(i - 1) : args[j] # subcmd
    ELSE 0

\* C28: apply_sisorc returns args in order with the global flags once before
\* the first argument and the subcommand's flags once right after the
\* subcommand argument, nothing else changed; with no flags of either kind the
\* result is args.
C28_SisorcFlagsInsertedOnce ==
    fn_out # None =>
        LET in == Val(fn_in)
            i == SubcmdIndex(in.args, in.subcmd)
        IN Val(fn_out) =
              IF in.args = <<>> THEN <<>>
              ELSE in.global_flags
                   \o SubSeq(in.args, 1, i)
                   \o (IF i = 0 THEN <<>> ELSE GetOrEmpty(in.subcmd_flags, in.subcmd))
                   \o SubSeq(in.args, i + 1, Len(in.args))

----------------------------------------------------------------------------
(* siso.py: apply_telemetry_flags *)

telemetry_flags ==
    <<<<"e", "n", "a", "b", "l", "e", "_", "c", "l", "o", "u", "d", "_", "m", "o", "n", "i", "t", "o", "r", "i", "n", "g">>,
      <<"e", "n", "a", "b", "l", "e", "_", "c", "l", "o", "u", "d", "_", "p", "r", "o", "f", "i", "l", "e", "r">>,
      <<"e", "n", "a", "b", "l", "e", "_", "c", "l", "o", "u", "d", "_", "t", "r", "a", "c", "e">>,
      <<"e", "n", "a", "b", "l", "e", "_", "c", "l", "o", "u", "d", "_", "l", "o", "g", "g", "i", "n", "g">>>>

METRICS_PROJECT == <<"m", "e", "t", "r", "i", "c", "s", "_", "p", "r", "o", "j", "e", "c", "t">>
PROJECT == <<"p", "r", "o", "j", "e", "c", "t">>

metrics_env_var == "RBE_metrics_project"
project_env_var == "SISO_PROJECT"

\* The inner loop of apply_telemetry_flags: some argument is -flag, --flag,
\* or starts with -flag= or --flag=.
flag_found(flag, args) ==
    \E i \in DOMAIN args :
        \/ args[i] = <<"-">> \o flag
        \/ args[i] = <<"-", "-">> \o flag
        \/ startswith(args[i], <<"-">> \o flag \o <<"=">>)
        \/ startswith(args[i], <<"-", "-">> \o flag \o <<"=">>)

\* The outer loop of apply_telemetry_flags over the flags left to look at.
RECURSIVE flags_to_add(_, _)
flags_to_add(flags, args) ==
    IF flags = <<>> THEN <<>>
    ELSE (IF flag_found(Head(flags), args) THEN <<>>
          ELSE <<<<"-", "-">> \o Head(flags)>>)
         \o flags_to_add(Tail(flags), args)

\* argparse's parse_known_args for a parser with the two options
\* -metrics_project/--metrics_project and -project/--project, from argument i
\* on.  An option takes its value from "option=value" or from the next
\* argument; the last value given wins; an option at the end, or followed by
\* an argument that starts with "-", ends the program (SystemExit).  Every
\* other argument is left aside.  Abbreviated option names are not followed.
RECURSIVE parse_known_args_from(_, _, _)
parse_known_args_from(args, i, known_args) ==
    IF i > Len(args) THEN Return(known_args)
    ELSE LET arg == args[i]
             eq == Find(arg, {"="})
             option_string == IF eq = 0 THEN arg ELSE SubSeq(arg, 1, eq - 1)
             dest == IF option_string \in {<<"-">> \o METRICS_PROJECT,
                                           <<"-", "-">> \o METRICS_PROJECT}
                     THEN "metrics_project"
                     ELSE IF option_string \in {<<"-">> \o PROJECT,
                                                <<"-", "-">> \o PROJECT}
                          THEN "project"
                     ELSE "none"
         IN IF dest = "none" THEN parse_known_args_from(args, i + 1, known_args)
            ELSE IF eq # 0
                 THEN parse_known_args_from(args, i + 1,
                        [known_args EXCEPT ![dest] = Some(SubSeq(arg, eq + 1, Len(arg)))])
            ELSE IF i + 1 <= Len(args) /\ ~startswith(args[i + 1], DASH)
                 THEN parse_known_args_from(args, i + 2,
                        [known_args EXCEPT ![dest] = Some(args[i + 1])])
            ELSE Raise(PyError("SystemExit"))

parse_known_args(args) ==
    parse_known_args_from(args, 1, [metrics_project |-> None, project |-> None])

\* dict.setdefault(key, value)
setdefault(d, k, v) == IF k \in DOMAIN d THEN d ELSE SetItem(d, k, v)

\* apply_telemetry_flags with --project looked at before --metrics_project (a
\* plausible slip).
apply_telemetry_flags_project_first(args, env) ==
    LET env2 == setdefault(env, "GOOGLE_API_USE_CLIENT_CERTIFICATE",
                           <<"f", "a", "l", "s", "e">>)
        add == flags_to_add(telemetry_flags, args)
        result(a) == Return([args |-> a, env |-> env2])
    IN IF metrics_env_var \in DOMAIN env THEN result(args \o add)
       ELSE LET known == parse_known_args(args) IN
            IF known.kind = "raise" THEN known
            ELSE IF TruthyText(known.value.project)
                 THEN result(args \o add \o
                        << <<"-", "-">> \o METRICS_PROJECT \o <<"=">>
                           \o Val(known.value.project) >>)
            ELSE IF TruthyText(known.value.metrics_project) THEN result(args \o add)
            ELSE IF project_env_var \in DOMAIN env
                 THEN result(args \o add \o
                        << <<"-", "-">> \o METRICS_PROJECT \o <<"=">>
                           \o env[project_env_var] >>)
            ELSE result(args)

\* siso.apply_telemetry_flags: the returned list and env as the call leaves it.
apply_telemetry_flags(args, env) ==
    LET env2 == setdefault(env, "GOOGLE_API_USE_CLIENT_CERTIFICATE",
                           <<"f", "a", "l", "s", "e">>)
        add == flags_to_add(telemetry_flags, args)
        result(a) == Return([args |-> a, env |-> env2])
    IN IF metrics_env_var \in DOMAIN env THEN result(args \o add)
       ELSE LET known == parse_known_args(args) IN
            IF known.kind = "raise" THEN known
            ELSE IF TruthyText(known.value.metrics_project) THEN result(args \o add)
            ELSE IF TruthyText(known.value.project)
                 THEN result(args \o add \o
                        << <<"-", "-">> \o METRICS_PROJECT \o <<"=">>
                           \o Val(known.value.project) >>)
            ELSE IF project_env_var \in DOMAIN env
                 THEN result(args \o add \o
                        << <<"-", "-">> \o METRICS_PROJECT \o <<"=">>
                           \o env[project_env_var] >>)
            ELSE result(args)

----------------------------------------------------------------------------
(* Specification SpecTelemetry: apply_telemetry_flags as a function of the
   command line and the environment *)

TelemetryWords ==
    {NINJA,
     <<"-", "-", "m", "e", "t", "r", "i", "c", "s", "_", "p", "r", "o", "j", "e", "c", "t", "=", "m">>,
     <<"-", "m", "e", "t", "r", "i", "c", "s", "_", "p", "r", "o", "j", "e", "c", "t", "=">>,
     <<"-", "-", "p", "r", "o", "j", "e", "c", "t", "=", "p">>,
     <<"-", "-", "p", "r", "o", "j", "e", "c", "t">>,
     <<"-", "-", "e", "n", "a", "b", "l", "e", "_", "c", "l", "o", "u", "d", "_", "t", "r", "a", "c", "e">>,
     <<"-", "e", "n", "a", "b", "l", "e", "_", "c", "l", "o", "u", "d", "_", "p", "r", "o", "f", "i", "l", "e", "r", "=", "f", "a", "l", "s", "e">>}

\* The command lines argparse accepts: every option has a value.
TelemetryArgLists ==
    {a \in Texts(TelemetryWords, MaxArgs) : parse_known_args(a).kind = "return"}

\* The environments: each of the two variables absent, empty or set.
Environments ==
    {[k \in ks |-> IF k \in empty THEN <<>>
                   ELSE IF k = metrics_env_var THEN <<"r">> ELSE <<"s">>] :
        ks \in SUBSET {metrics_env_var, project_env_var},
        empty \in SUBSET {metrics_env_var, project_env_var}}

InitTelemetry ==
    /\ fn_in \in {Some([args |-> a, env |-> e]) :
                    a \in TelemetryArgLists, e \in Environments}
    /\ fn_out = None
    /\ ConcIdle
    /\ now = 0
    /\ scopes = OAUTH_SCOPE_EMAIL
    /\ audience = None
    /\ access_token = None
    /\ id_token = None
    /\ last = [op |-> "none"]
    /\ http = [request |-> "request_orig", use_id_token |-> FALSE]
    /\ tk = Token("t1", None)
    /\ tk_result = None
    /\ g_access_token = None
    /\ g_last = [op |-> "none"]

\* apply_telemetry_flags(args, env) is called.
ApplyTelemetryFlags ==
    /\ fn_out = None
    /\ fn_out' = Some(apply_telemetry_flags(Val(fn_in).args, Val(fn_in).env))
    /\ UNCHANGED <<fn_in, now, authVars, tokenVars, gerritVars, concVars>>

NextTelemetry == ApplyTelemetryFlags

SpecTelemetry == InitTelemetry /\ [][NextTelemetry]_vars

\* The --enable_cloud_* flags that args hold in no form, in their order.
MissingFlags(args) ==
    LET Occurs(flag) ==
            \E i \in DOMAIN args :
                \E dashes \in {<<"-">>, <<"-", "-">>} :
                    \/ args[i] = dashes \o flag
                    \/ startswith(args[i], dashes \o flag \o <<"=">>)
        Absent(flag) == ~Occurs(flag)
    IN [i \in DOMAIN SelectSeq(telemetry_flags, Absent) |->
            <<"-", "-">> \o SelectSeq(telemetry_flags, Absent)[i]]

MetricsProjectFlag(project) == <<"-", "-", "m", "e", "t", "r", "i", "c", "s", "_", "p", "r", "o", "j", "e", "c", "t", "=">> \o project

\* What the call should return when an argument counts as set under the
\* test ArgSet and an environment variable counts as set when it is present.
ExpectedTelemetryArgs(ArgSet(_)) ==
    LET args == Val(fn_in).args
        env == Val(fn_in).env
        known == parse_known_args(args).value
    IN IF "RBE_metrics_project" \in DOMAIN env THEN args \o MissingFlags(args)
       ELSE IF ArgSet(known.metrics_project) THEN args \o MissingFlags(args)
       ELSE IF ArgSet(known.project)
            THEN args \o MissingFlags(args) \o <<MetricsProjectFlag(Val(known.project))>>
       ELSE IF "SISO_PROJECT" \in DOMAIN env
            THEN args \o MissingFlags(args) \o <<MetricsProjectFlag(env["SISO_PROJECT"])>>
       ELSE args

ArgGiven(o) == o # None
ArgNonEmpty(o) == o # None /\ Val(o) # <<>>

----------------------------------------------------------------------------
(* git_auth.py: ConfigWizard._move_file.  A directory is a function from the
   names it holds to their entries; the name 0 is path, the name n >= 1 is
   path.bak (n = 1) or path.bak<n>.  An entry is a file or a symbolic link
   whose target is missing; data tells the entries apart. *)

MaxBackups == 3     \* at most this many backup names are taken beforehand

File(data) == [kind |-> "file", data |-> data]
DanglingLink(data) == [kind |-> "dangling", data |-> data]

\* os.path.exists: false for a name that is absent and for a broken link.
exists(fs, name) == name \in DOMAIN fs /\ fs[name].kind # "dangling"

\* os.rename on POSIX: the entry moves to dst and replaces a file or a link
\* that is there; a missing src is FileNotFoundError.
rename(fs, src, dst) ==
    IF src \notin DOMAIN fs
    THEN [fs |-> fs, out |-> Raise(PyError("FileNotFoundError"))]
    ELSE [fs |-> [n \in (DOMAIN fs \ {src}) \cup {dst} |->
                    IF n = dst THEN fs[src] ELSE fs[n]],
          out |-> Return(dst)]

\* The while loop of _move_file: the first n from the given one on whose
\* backup name os.path.exists does not see.
RECURSIVE first_backup(_, _)
first_backup(fs, n) == IF exists(fs, n) THEN first_backup(fs, n + 1) ELSE n

\* ConfigWizard._move_file(path): the directory afterwards and the backup
\* name the entry went to.
move_file(fs) == rename(fs, 0, first_backup(fs, 1))

----------------------------------------------------------------------------
(* Specification SpecMove: _move_file on a directory *)

\* The directories: path absent, a file or a broken link, and each of the
\* first backup names absent, a file or a broken link.
Directories ==
    UNION {[names -> {"file", "dangling"}] : names \in SUBSET (0..MaxBackups)}

InitMove ==
    /\ fn_in \in {Some([n \in DOMAIN d |->
                          IF d[n] = "file" THEN File(n) ELSE DanglingLink(n)]) :
                    d \in Directories}
    /\ fn_out = None
    /\ ConcIdle
    /\ now = 0
    /\ scopes = OAUTH_SCOPE_EMAIL
    /\ audience = None
    /\ access_token = None
    /\ id_token = None
    /\ last = [op |-> "none"]
    /\ http = [request |-> "request_orig", use_id_token |-> FALSE]
    /\ tk = Token("t1", None)
    /\ tk_result = None
    /\ g_access_token = None
    /\ g_last = [op |-> "none"]

\* self._move_file(path) is called.
MoveFile ==
    /\ fn_out = None
    /\ fn_out' = Some(move_file(Val(fn_in)))
    /\ UNCHANGED <<fn_in, now, authVars, tokenVars, gerritVars, concVars>>

NextMove == MoveFile

SpecMove == InitMove /\ [][NextMove]_vars

\* C30: _move_file renames path to the first backup name that is not taken:
\* no entry that was there is replaced, every backup that was there is as it
\* was, the entry of path is under the new name and path is gone.
C30_MoveNeverOverwrites ==
    (fn_out # None /\ Val(fn_out).out.kind = "return") =>
        LET before == Val(fn_in)
            after == Val(fn_out).fs
            backup == Val(fn_out).out.value
        IN /\ backup >= 1
           /\ backup \notin DOMAIN before
           /\ \A n \in 1..(backup - 1) : n \in DOMAIN before
           /\ \A n \in DOMAIN before \ {0} : n \in DOMAIN after /\ after[n] = before[n]
           /\ after[backup] = before[0]
           /\ 0 \notin DOMAIN after

====
